---- MODULE Spec2Model ----
(***************************************************************************)
(* RiskGuard: the aggregate-risk enforcer (RiskguardV1.1/limits/limits.py, *)
(* driven by RiskGuardv0.0.2/limits/limits_watch.py), the news-window      *)
(* enforcer and its daemon (RiskGuardv0.0.2/news/news_windows0.1.py and    *)
(* news_windows0.2.py), the kill switch they share and the trading engine  *)
(* they act on.                                                            *)
(*                                                                         *)
(* Time is counted in minutes.  Risk is counted in units of 1e-9 percent,   *)
(* the size of the epsilon of limits.py:124.                               *)
(* A ticket is an integer; the engine never hands out a ticket twice.      *)
(***************************************************************************)
EXTENDS Integers, Sequences, FiniteSets, TLC

(* ------------------------------ bounds -------------------------------- *)
MaxTime == 2
MaxTickets == 2
AttemptsCap == 3
MaxBlockMinutes == 2

(* ------------------------ program parameters -------------------------- *)
threshold_pct == 5
Epsilon == 1
max_block_attempts == 2
window_min == 1
CooldownSeconds == 3
NoTime == -1

Max(a, b) == IF a >= b THEN a ELSE b
Min(a, b) == IF a <= b THEN a ELSE b

RiskValues == {threshold_pct + Epsilon, threshold_pct + Epsilon + 1}
BlockMinutesChoices == {0, MaxBlockMinutes}

(* symbols and currencies are strings, modelled as sequences of characters *)
EURUSD == <<"E", "U", "R", "U", "S", "D">>
XAUUSD == <<"X", "A", "U", "U", "S", "D">>
XAU == <<"X", "A", "U">>
USD == <<"U", "S", "D">>
EUR == <<"E", "U", "R">>
US30 == <<"U", "S", "3", "0">>
eurusd == <<"e", "u", "r", "u", "s", "d">>
Letters == {"A", "D", "E", "R", "S", "U", "X"}

(* the symbols a broker may list *)
Symbols == {EURUSD, XAUUSD, XAU, US30, eurusd}

(* the cached calendar: currency-tagged events with their UTC time *)
Calendar == {[currency |-> USD, ts_utc |-> 1], [currency |-> EUR, ts_utc |-> 2]}

VARIABLES
    now,              \* the UTC clock
    positions,        \* the engine's open positions: ticket -> [symbol, open_time]
    nextTicket,       \* the next ticket the engine hands out
    autotrading,      \* the terminal's automated-trading switch
    block_minutes,    \* AGGREGATE_BLOCK_MINUTES of this installation
    st,               \* the state file .riskguard_limits.json
    kill_until,       \* the kill switch's record: NoTime or a timestamp
    cooldown,         \* seconds of the anti-flood wait left after a re-enable
    pc,               \* news_windows0.1 run_daemon: "idle" or "barrier"
    affected_tickets, \* news_windows0.1 run_daemon: the tickets the barrier waits for
    ticked,           \* history: enforce_aggregate_risk has run
    first_tickets,    \* history: the tickets of the first enforce_aggregate_risk snapshot
    close_requested,  \* history: tickets enforce_aggregate_risk asked the engine to close
    closed_ok,        \* history: those whose close succeeded
    armed_max,        \* history: the latest timestamp passed to set_kill_until since the last expiry
    reenabled,        \* history: re-enables fired since the last set_kill_until, up to 2
    state_file,       \* .riskguard_limits.json on disk: "missing", "valid" or "truncated"
    watch,            \* the limits_watch process: "running", "terminated" or "crashed"
    prev,             \* limits_watch main: prev_attempts and prev_block
    inflight          \* an enforce_aggregate_risk call between its kill_status() and its save:
                      \* "none", or what kill_status() answered: "active" or "inactive"

daemon == <<cooldown, pc, affected_tickets>>
limits_history == <<ticked, first_tickets, close_requested, closed_ok>>
kill_history == <<armed_max, reenabled>>
process == <<state_file, watch, prev, inflight>>
vars == <<now, positions, nextTicket, autotrading, block_minutes, st, kill_until,
          cooldown, pc, affected_tickets, ticked, first_tickets, close_requested,
          closed_ok, armed_max, reenabled, state_file, watch, prev, inflight>>

(* --------------------------- kill switch ------------------------------ *)
(* limits/kill_switch.py is not among the sources: 4.2 of the specification *)
KillActive(until, t) == until # NoTime /\ until > t

ArmUntilLast(until, t) == t
ArmUntil(until, t) == IF until = NoTime \/ t > until THEN t ELSE until

ReenableDue(until, t) == until # NoTime /\ t >= until

UntilKept(until) == until
UntilAfterReenable(until) == NoTime

(* ------------------------- state file ---------------------------------- *)
(* _load_state of a missing file gives {}; every field read by the caller   *)
(* then falls back to these defaults                                        *)
EmptyState == [baseline_tickets |-> {}, block_attempts |-> 0,
               last_attempt_at |-> NoTime, risk_block_active |-> FALSE]

(* _load_state: {} when the file is missing or json.load fails on it *)
LoadUnchecked == st
load_state == IF state_file = "valid" THEN st ELSE EmptyState

(* limits_watch main starts with prev_attempts = prev_block = None *)
NoPrev == [attempts |-> NoTime, block |-> FALSE]

Init ==
    /\ now = 0
    /\ positions = <<>>
    /\ nextTicket = 1
    /\ autotrading = TRUE
    /\ block_minutes \in BlockMinutesChoices
    /\ st = EmptyState
    /\ kill_until = NoTime
    /\ cooldown = 0
    /\ pc = "idle"
    /\ affected_tickets = {}
    /\ ticked = FALSE
    /\ first_tickets = {}
    /\ close_requested = {}
    /\ closed_ok = {}
    /\ armed_max = NoTime
    /\ reenabled = 0
    /\ state_file = "missing"
    /\ watch = "running"
    /\ prev = NoPrev
    /\ inflight = "none"

(* ------------------------- trading engine ------------------------------ *)
Without(f, S) == [k \in DOMAIN f \ S |-> f[k]]

Advance ==
    /\ now < MaxTime
    /\ now' = now + 1
    /\ cooldown' = 0
    /\ UNCHANGED <<positions, nextTicket, autotrading, block_minutes, st, kill_until, pc,
                   affected_tickets>>
    /\ UNCHANGED limits_history
    /\ UNCHANGED kill_history
    /\ UNCHANGED process

OpenPositionUpTo(symbol, tickets) ==
    /\ nextTicket <= tickets
    /\ positions' = [k \in DOMAIN positions \cup {nextTicket} |->
                        IF k = nextTicket THEN [symbol |-> symbol, open_time |-> now]
                        ELSE positions[k]]
    /\ nextTicket' = nextTicket + 1
    /\ UNCHANGED <<now, autotrading, block_minutes, st, kill_until>>
    /\ UNCHANGED daemon
    /\ UNCHANGED limits_history
    /\ UNCHANGED kill_history
    /\ UNCHANGED process

OpenPosition(symbol) == OpenPositionUpTo(symbol, MaxTickets)

ClosePosition(t) ==
    /\ t \in DOMAIN positions
    /\ positions' = Without(positions, {t})
    /\ UNCHANGED <<now, nextTicket, autotrading, block_minutes, st, kill_until>>
    /\ UNCHANGED daemon
    /\ UNCHANGED limits_history
    /\ UNCHANGED kill_history
    /\ UNCHANGED process

(* --------------------- enforce_aggregate_risk -------------------------- *)
DecayDueLate(attempts, last, t, bm) ==
    attempts > 0 /\ last # NoTime /\ (t - last) > Max(1, bm)
DecayDue(attempts, last, t, bm) ==
    attempts > 0 /\ last # NoTime /\ (t - last) >= Max(1, bm)

WithinThresholdNoEpsilon(total) == total <= threshold_pct
WithinThreshold(total) == total <= threshold_pct + Epsilon

NewTicketsAll(current, baseline) == current
NewTickets(current, baseline) == {t \in current : t \notin baseline}

CleanResetAnyKill(risk_block_active, kill_active_before) == risk_block_active
CleanReset(risk_block_active, kill_active_before) ==
    risk_block_active /\ ~kill_active_before

BaselineWithNew(baseline, new_tickets) == baseline \cup new_tickets
BaselineAfterBlock(baseline, new_tickets) == baseline

BlockTrippedEarly(attempts) == attempts >= max_block_attempts - 1
BlockTripped(attempts) == attempts >= max_block_attempts

BlockUntilRaw(t, bm) == t + bm
BlockUntil(t, bm) == t + Max(1, bm)

(* limits.py:162-163: one attempt for each new ticket of the call *)
AttemptsPerTick(attempts, new_tickets) == attempts + (IF new_tickets # {} THEN 1 ELSE 0)
AttemptsNotRecounted(attempts, new_tickets) ==
    attempts + Cardinality(new_tickets \ close_requested)
AttemptsAfter(attempts, new_tickets) == attempts + Cardinality(new_tickets)

(* limits.py:156-159: a close the engine did not confirm is listed as failed *)
FailedClosesDropped(new_tickets, ok) == {}
FailedCloses(new_tickets, ok) == new_tickets \ ok

(* limits.py:145-159: one close_position_full per new ticket, in the order of the snapshot *)
CloseCall(ticket) == [op |-> "close", ticket |-> ticket]

RECURSIVE CloseCalls(_)
CloseCalls(new_tickets) ==
    IF new_tickets = {} THEN <<>>
    ELSE LET t == CHOOSE x \in new_tickets : \A y \in new_tickets : x <= y
         IN  <<CloseCall(t)>> \o CloseCalls(new_tickets \ {t})

(* limits.py:79: the flag the call starts from *)
RiskBlockPersistedOnly(persisted, kill_active_before) == persisted
RiskBlockBefore(persisted, kill_active_before) == persisted \/ kill_active_before

(* limits.py:169-171: the call arms the switch only when it did not find it active *)
ArmWhenTripped(tripped, kill_active_before) == tripped
ArmOnNewViolation(tripped, kill_active_before) ==
    /\ tripped
    /\ ~kill_active_before
    /\ NewTickets(DOMAIN positions, load_state.baseline_tickets) # {}
ArmNow(tripped, kill_active_before) == tripped /\ ~kill_active_before

(* what one call computes from the snapshot (the open tickets and `total`) and *)
(* the engine's answers to the close requests (`ok`: the tickets it closed)     *)
OutcomeWith(kill_active_before, total, ok) ==
    LET tickets_current == DOMAIN positions
        loaded == load_state
        baseline == loaded.baseline_tickets
        rb0 == RiskBlockBefore(loaded.risk_block_active, kill_active_before)
        decay == DecayDue(loaded.block_attempts, loaded.last_attempt_at, now, block_minutes)
        attempts0 == IF decay THEN 0 ELSE loaded.block_attempts
        last0 == IF decay THEN NoTime ELSE loaded.last_attempt_at
        rep0 == [branch |-> "none", total_risk_pct |-> total, new_tickets_detected |-> {},
                 closed |-> {}, failed |-> {}, attempts_before |-> attempts0,
                 attempts_after |-> attempts0, risk_block_active_after |-> rb0,
                 kill_switch_active_before |-> kill_active_before,
                 kill_switch_active_after |-> kill_active_before,
                 kill_switch_armed_now |-> FALSE]
    IN  IF baseline = {} THEN
            [st |-> [baseline_tickets |-> tickets_current, block_attempts |-> attempts0,
                     last_attempt_at |-> last0, risk_block_active |-> rb0],
             kill_until |-> kill_until,
             report |-> [rep0 EXCEPT !.branch = "first"]]
        ELSE IF WithinThreshold(total) THEN
            LET reset == CleanReset(rb0, kill_active_before)
                attempts1 == IF reset THEN 0 ELSE attempts0
                last1 == IF reset THEN NoTime ELSE last0
                rb1 == IF reset THEN FALSE ELSE rb0
            IN  [st |-> [baseline_tickets |-> tickets_current, block_attempts |-> attempts1,
                         last_attempt_at |-> last1, risk_block_active |-> rb1],
                 kill_until |-> kill_until,
                 report |-> [rep0 EXCEPT !.branch = "within", !.attempts_after = attempts1,
                                         !.risk_block_active_after = rb1]]
        ELSE
            LET new_tickets == NewTickets(tickets_current, baseline)
                attempts1 == AttemptsAfter(attempts0, new_tickets)
                last1 == IF new_tickets # {} THEN now ELSE last0
                tripped == BlockTripped(attempts1)
                arm == ArmNow(tripped, kill_active_before)
                until1 == IF arm THEN ArmUntil(kill_until, BlockUntil(now, block_minutes))
                          ELSE kill_until
                active_after == KillActive(until1, now)
                rb1 == rb0 \/ tripped \/ active_after
            IN  [st |-> [baseline_tickets |-> BaselineAfterBlock(baseline, new_tickets),
                         block_attempts |-> attempts1,
                         last_attempt_at |-> last1, risk_block_active |-> rb1],
                 kill_until |-> until1,
                 report |-> [rep0 EXCEPT !.branch = "above",
                                         !.new_tickets_detected = new_tickets,
                                         !.closed = ok \cap new_tickets,
                                         !.failed = FailedCloses(new_tickets, ok),
                                         !.attempts_after = attempts1,
                                         !.risk_block_active_after = rb1,
                                         !.kill_switch_active_after = active_after,
                                         !.kill_switch_armed_now = arm]]

(* a call that no other process overtakes: kill_status() of line 76 is still *)
(* true of the kill switch when the call saves                               *)
Outcome(total, ok) == OutcomeWith(KillActive(kill_until, now), total, ok)

NewTicketsOf(total) == Outcome(total, {}).report.new_tickets_detected

(* one call; `saved` is false when the process dies inside _save_state, after *)
(* open(STATE_FILE, "w") has emptied the file and before json.dump has ended  *)
(* `gone` are new tickets that left the engine between the snapshot and their   *)
(* close attempt: close_position_full answers not-ok for them                  *)
EnforceStepGone(out, ok, gone, saved) ==
    LET rep == out.report
        new_tickets == rep.new_tickets_detected
    IN  /\ ok \subseteq new_tickets
        /\ gone \subseteq new_tickets \ ok
        /\ out.st.block_attempts <= AttemptsCap
        /\ st' = out.st
        /\ state_file' = IF saved THEN "valid" ELSE "truncated"
        /\ kill_until' = out.kill_until
        /\ positions' = Without(positions, ok \cup gone)
        /\ ticked' = TRUE
        /\ first_tickets' = IF ticked THEN first_tickets ELSE DOMAIN positions
        /\ close_requested' = close_requested \cup new_tickets
        /\ closed_ok' = closed_ok \cup ok
        /\ armed_max' = IF rep.kill_switch_armed_now
                        THEN Max(armed_max, BlockUntil(now, block_minutes)) ELSE armed_max
        /\ reenabled' = IF rep.kill_switch_armed_now THEN 0 ELSE reenabled
        /\ UNCHANGED <<now, nextTicket, autotrading, block_minutes>>
        /\ UNCHANGED daemon

EnforceStepWith(out, ok, saved) == EnforceStepGone(out, ok, {}, saved)

EnforceStep(total, ok, saved) == EnforceStepWith(Outcome(total, ok), ok, saved)

(* a call during which some of the new tickets leave the engine on their own *)
enforce_with_vanished(total, ok, gone) ==
    /\ EnforceStepGone(Outcome(total, ok), ok, gone, TRUE)
    /\ UNCHANGED <<watch, prev, inflight>>

enforce_aggregate_risk(total, ok) ==
    /\ EnforceStep(total, ok, TRUE)
    /\ UNCHANGED <<watch, prev, inflight>>

(* risk_block_status *)
risk_block_status ==
    LET loaded == load_state
    IN  [risk_block_active |-> loaded.risk_block_active \/ KillActive(kill_until, now),
         block_attempts |-> loaded.block_attempts,
         baseline_tickets |-> loaded.baseline_tickets,
         kill_switch_active |-> KillActive(kill_until, now),
         kill_switch_until |-> kill_until]

(* -------------------------- news window -------------------------------- *)
Upper(c) == CASE c = "e" -> "E" [] c = "u" -> "U" [] c = "r" -> "R" [] c = "s" -> "S"
              [] c = "d" -> "D" [] c = "x" -> "X" [] c = "a" -> "A" [] OTHER -> c
IsAlpha(s) == Len(s) > 0 /\ \A i \in 1..Len(s) : s[i] \in Letters

MapSymbolFirstThree(symbol) ==
    LET s == [i \in 1..Len(symbol) |-> Upper(symbol[i])]
    IN  IF Len(s) >= 6 /\ IsAlpha(SubSeq(s, 1, 3)) /\ IsAlpha(SubSeq(s, 4, 6))
        THEN {SubSeq(s, 1, 3), SubSeq(s, 4, 6)}
        ELSE {SubSeq(s, 1, Min(3, Len(s)))}
map_symbol_currencies(symbol) ==
    LET s == [i \in 1..Len(symbol) |-> Upper(symbol[i])]
    IN  IF Len(s) >= 6 /\ IsAlpha(SubSeq(s, 1, 3)) /\ IsAlpha(SubSeq(s, 4, 6))
        THEN {SubSeq(s, 1, 3), SubSeq(s, 4, 6)}
        ELSE {SubSeq(s, Max(1, Len(s) - 2), Len(s))}

FindEventsInside(df, currencies, now_utc, window) ==
    LET lo == now_utc - window
        hi == now_utc + window
    IN  {r \in df : r.currency \in currencies /\ lo < r.ts_utc /\ r.ts_utc < hi}
find_events(df, currencies, now_utc, window) ==
    LET lo == now_utc - window
        hi == now_utc + window
    IN  {r \in df : r.currency \in currencies /\ lo <= r.ts_utc /\ r.ts_utc <= hi}

recent_s == window_min

SetMax(S) == CHOOSE x \in S : \A y \in S : y <= x

(* map_symbol_currencies of each symbol the engine trades *)
SymbolCurrencies == [symbol \in Symbols |-> map_symbol_currencies(symbol)]

Matches(k) == find_events(Calendar, SymbolCurrencies[positions[k].symbol], now, window_min)

(* the positions of the snapshot the loop goes on to close *)
Matched == {k \in DOMAIN positions :
                /\ ~((now - positions[k].open_time) > recent_s)
                /\ Matches(k) # {}}

ThisUntil(k) == SetMax({m.ts_utc : m \in Matches(k)}) + window_min

(* the first lines of each run_daemon iteration: kill_status, maybe_reenable_autotrade *)
Reenables == ReenableDue(kill_until, now)
UntilAfterCheck == IF Reenables THEN UntilAfterReenable(kill_until) ELSE kill_until
CooldownNotStarted == cooldown
CooldownAfterCheck == IF Reenables THEN CooldownSeconds ELSE cooldown

(* an iteration that fires the re-enable or falls in the anti-flood wait: sleep(1); continue *)
CooldownIteration ==
    /\ pc = "idle"
    /\ CooldownAfterCheck > 0
    /\ cooldown' = CooldownAfterCheck - 1
    /\ kill_until' = UntilAfterCheck
    /\ autotrading' = (autotrading \/ Reenables)
    /\ armed_max' = IF Reenables THEN NoTime ELSE armed_max
    /\ reenabled' = IF Reenables THEN Min(2, reenabled + 1) ELSE reenabled
    /\ UNCHANGED <<now, positions, nextTicket, block_minutes, st, pc, affected_tickets>>
    /\ UNCHANGED limits_history
    /\ UNCHANGED process

(* news_windows0.2 enforce_news_window: `ok` are the positions the engine closed, *)
(* `raised` those whose close raised; the switch is armed once, after the loop    *)
Affected(snapshot_ok, raised) == IF snapshot_ok THEN Matched \ raised ELSE {}

MaxUntil(affected) ==
    IF affected = {} THEN NoTime ELSE SetMax({ThisUntil(k) : k \in affected})

NewsReport02(snapshot_ok, ok, raised) ==
    LET affected == Affected(snapshot_ok, raised)
    IN  [affected |-> affected, closed |-> ok \cap affected, failed |-> affected \ ok,
         kill_switch_until |-> MaxUntil(affected)]

run_daemon_02(snapshot_ok, ok, raised) ==
    LET affected == Affected(snapshot_ok, raised)
        max_until == MaxUntil(affected)
    IN  /\ pc = "idle"
        /\ CooldownAfterCheck = 0
        /\ ok \subseteq Matched
        /\ raised \subseteq Matched \ ok
        /\ ~snapshot_ok => ok = {} /\ raised = {}
        /\ positions' = Without(positions, ok)
        /\ kill_until' = IF affected # {} THEN ArmUntil(kill_until, max_until) ELSE kill_until
        /\ armed_max' = IF affected # {} THEN Max(armed_max, max_until) ELSE armed_max
        /\ reenabled' = IF affected # {} THEN 0 ELSE reenabled
        /\ UNCHANGED <<now, nextTicket, autotrading, block_minutes, st, cooldown, pc,
                       affected_tickets>>
        /\ UNCHANGED limits_history
        /\ UNCHANGED process

(* news_windows0.1 enforce_news_window: ensure_autotrading_on before each close, *)
(* set_kill_until once for every position whose close did not raise, in the     *)
(* order of the snapshot                                                        *)
RECURSIVE ArmEach(_, _)
ArmEach(until, tickets) ==
    IF tickets = {} THEN until
    ELSE LET k == CHOOSE x \in tickets : \A y \in tickets : x <= y
         IN  ArmEach(ArmUntil(until, ThisUntil(k)), tickets \ {k})

NewsReport01(snapshot_ok, ok, raised) ==
    LET affected == Affected(snapshot_ok, raised)
    IN  [affected |-> affected, closed |-> ok \cap affected, failed |-> affected \ ok,
         kill_switch_until |-> IF affected = {} THEN NoTime ELSE ThisUntil(SetMax(affected))]

(* news_windows0.1 run_daemon, one iteration up to the confirmation barrier *)
run_daemon_01(snapshot_ok, ok, raised) ==
    LET affected == Affected(snapshot_ok, raised)
    IN  /\ pc = "idle"
        /\ CooldownAfterCheck = 0
        /\ ok \subseteq Matched
        /\ raised \subseteq Matched \ ok
        /\ ~snapshot_ok => ok = {} /\ raised = {}
        /\ positions' = Without(positions, ok)
        /\ autotrading' = IF snapshot_ok /\ Matched # {} THEN TRUE ELSE autotrading
        /\ kill_until' = ArmEach(kill_until, affected)
        /\ armed_max' = IF affected # {} THEN Max(armed_max, MaxUntil(affected)) ELSE armed_max
        /\ reenabled' = IF affected # {} THEN 0 ELSE reenabled
        /\ pc' = IF affected # {} THEN "barrier" ELSE "idle"
        /\ affected_tickets' = affected
        /\ UNCHANGED <<now, nextTicket, block_minutes, st, cooldown>>
        /\ UNCHANGED limits_history
        /\ UNCHANGED process

(* one poll of the barrier: snap2 = reader.snapshot() is outside any try of the   *)
(* barrier, so a failing snapshot leaves through the except of the iteration and *)
(* ensure_autotrading_off is not reached                                         *)
barrier_poll(snapshot_ok) ==
    LET remaining == affected_tickets \cap DOMAIN positions
    IN  /\ pc = "barrier"
        /\ IF ~snapshot_ok
           THEN /\ pc' = "idle"
                /\ affected_tickets' = {}
                /\ UNCHANGED autotrading
           ELSE IF remaining = {}
           THEN /\ pc' = "idle"
                /\ affected_tickets' = {}
                /\ autotrading' = FALSE
           ELSE UNCHANGED <<pc, affected_tickets, autotrading>>
        /\ UNCHANGED <<now, positions, nextTicket, block_minutes, st, kill_until, cooldown>>
        /\ UNCHANGED limits_history
        /\ UNCHANGED kill_history
        /\ UNCHANGED process

(* the calls one enforce_news_window makes on its collaborators, in the order *)
(* of the code                                                               *)
NewsCall(op, ticket, until) == [op |-> op, ticket |-> ticket, until |-> until]

RECURSIVE TicketSeq(_)
TicketSeq(tickets) ==
    IF tickets = {} THEN <<>>
    ELSE LET k == CHOOSE x \in tickets : \A y \in tickets : x <= y
         IN  <<k>> \o TicketSeq(tickets \ {k})

(* news_windows0.1: ensure_autotrading_on, close_position_full, set_kill_until *)
(* for each matched position                                                  *)
CallsOf01(k, raised) ==
    <<NewsCall("autotrading_on", k, NoTime), NewsCall("close", k, NoTime)>>
        \o (IF k \in raised THEN <<>> ELSE <<NewsCall("arm", k, ThisUntil(k))>>)

RECURSIVE CallsEach01(_, _)
CallsEach01(tickets, raised) ==
    IF tickets = <<>> THEN <<>>
    ELSE CallsOf01(Head(tickets), raised) \o CallsEach01(Tail(tickets), raised)

Calls01(snapshot_ok, raised) ==
    IF snapshot_ok THEN CallsEach01(TicketSeq(Matched), raised) ELSE <<>>

(* news_windows0.2: close_position_full for each matched position, then one *)
(* set_kill_until and one notify_news when a position was affected          *)
Calls02(snapshot_ok, raised) ==
    LET affected == Affected(snapshot_ok, raised)
        tickets == TicketSeq(IF snapshot_ok THEN Matched ELSE {})
    IN  [i \in 1..Len(tickets) |-> NewsCall("close", tickets[i], NoTime)]
            \o (IF affected # {}
                THEN <<NewsCall("arm", 0, MaxUntil(affected)),
                       NewsCall("notify", 0, MaxUntil(affected))>>
                ELSE <<>>)

(* the kill switch record after the set_kill_until calls of a sequence of calls *)
RECURSIVE ApplyArms(_, _)
ApplyArms(until, calls) ==
    IF calls = <<>> THEN until
    ELSE ApplyArms(IF Head(calls).op = "arm" THEN ArmUntil(until, Head(calls).until)
                   ELSE until,
                   Tail(calls))

Next ==
    \/ Advance
    \/ OpenPosition(EURUSD)
    \/ \E t \in DOMAIN positions : ClosePosition(t)
    \/ \E total \in RiskValues : \E ok \in SUBSET NewTicketsOf(total) :
           enforce_aggregate_risk(total, ok)
    \/ CooldownIteration
    \/ \E snapshot_ok \in BOOLEAN : \E ok \in SUBSET Matched : \E raised \in SUBSET (Matched \ ok) :
           run_daemon_02(snapshot_ok, ok, raised)

Spec == Init /\ [][Next]_vars

(* the same, with a daemon that goes on iterating: while True with sleep(1) in the *)
(* anti-flood wait                                                                *)
SpecFair == Init /\ [][Next]_vars /\ WF_vars(CooldownIteration)

(* the news daemon of news_windows0.1 alone against the engine *)
NextNews01 ==
    \/ Advance
    \/ OpenPosition(EURUSD)
    \/ OpenPosition(XAUUSD)
    \/ \E t \in DOMAIN positions : ClosePosition(t)
    \/ CooldownIteration
    \/ \E snapshot_ok \in BOOLEAN : \E ok \in SUBSET Matched : \E raised \in SUBSET (Matched \ ok) :
           run_daemon_01(snapshot_ok, ok, raised)
    \/ \E snapshot_ok \in BOOLEAN : barrier_poll(snapshot_ok)

SpecNews01 == Init /\ [][NextNews01]_vars

(* the same, with a barrier that goes on polling: while True with sleep(1) *)
SpecNews01Fair ==
    Init /\ [][NextNews01]_vars /\ WF_vars(\E snapshot_ok \in BOOLEAN : barrier_poll(snapshot_ok))

(* the news daemon of news_windows0.2 against an engine that lists every symbol *)
NextSymbols ==
    \/ Advance
    \/ \E symbol \in Symbols : OpenPosition(symbol)
    \/ \E t \in DOMAIN positions : ClosePosition(t)
    \/ CooldownIteration
    \/ \E snapshot_ok \in BOOLEAN : \E ok \in SUBSET Matched : \E raised \in SUBSET (Matched \ ok) :
           run_daemon_02(snapshot_ok, ok, raised)

SpecSymbols == Init /\ [][NextSymbols]_vars

(* the aggregate-risk enforcer against an engine whose positions may close on *)
(* their own during a call                                                    *)
NextCloses ==
    \/ Advance
    \/ OpenPositionUpTo(EURUSD, MaxTickets + 1)
    \/ \E t \in DOMAIN positions : ClosePosition(t)
    \/ \E total \in RiskValues : \E ok \in SUBSET NewTicketsOf(total) :
           \E gone \in SUBSET (NewTicketsOf(total) \ ok) :
               enforce_with_vanished(total, ok, gone)

SpecCloses == Init /\ [][NextCloses]_vars

(* the limits_watch process alone against the engine, with the faults of its *)
(* environment: a snapshot that raises, a crash inside _save_state, a restart *)
limits_watch_tick(total, ok) ==
    /\ watch = "running"
    /\ EnforceStep(total, ok, TRUE)
    /\ watch' = watch
    /\ inflight' = inflight
    /\ prev' = [attempts |-> risk_block_status'.block_attempts,
                block |-> risk_block_status'.risk_block_active]

(* reader.snapshot() at limits.py:67 raises: main catches KeyboardInterrupt only *)
limits_watch_snapshot_fails ==
    /\ watch = "running"
    /\ watch' = "terminated"
    /\ UNCHANGED <<now, positions, nextTicket, autotrading, block_minutes, st, kill_until,
                   state_file, prev, inflight>>
    /\ UNCHANGED daemon
    /\ UNCHANGED limits_history
    /\ UNCHANGED kill_history

crash_in_save(total, ok) ==
    /\ watch = "running"
    /\ EnforceStep(total, ok, FALSE)
    /\ watch' = "crashed"
    /\ UNCHANGED <<prev, inflight>>

(* the file on disk outlives the process *)
FileLostOnRestart(file) == "missing"
FileAfterRestart(file) == file

Restart ==
    /\ watch' = "running"
    /\ prev' = NoPrev
    /\ state_file' = FileAfterRestart(state_file)
    /\ UNCHANGED <<now, positions, nextTicket, autotrading, block_minutes, st, kill_until,
                   inflight>>
    /\ UNCHANGED daemon
    /\ UNCHANGED limits_history
    /\ UNCHANGED kill_history

NextWatch ==
    \/ Advance
    \/ OpenPosition(EURUSD)
    \/ \E t \in DOMAIN positions : ClosePosition(t)
    \/ \E total \in RiskValues : \E ok \in SUBSET NewTicketsOf(total) :
           limits_watch_tick(total, ok)
    \/ limits_watch_snapshot_fails
    \/ \E total \in RiskValues : \E ok \in SUBSET NewTicketsOf(total) :
           crash_in_save(total, ok)
    \/ Restart

SpecWatch == Init /\ [][NextWatch]_vars

(* limits_watch and the news daemon as the two processes they are: a call of *)
(* enforce_aggregate_risk is split at its kill_status() (limits.py:76), and   *)
(* the news daemon may run between that read and the save                     *)
enforce_reads_kill_status ==
    /\ inflight = "none"
    /\ inflight' = IF KillActive(kill_until, now) THEN "active" ELSE "inactive"
    /\ UNCHANGED <<now, positions, nextTicket, autotrading, block_minutes, st, kill_until,
                   state_file, watch, prev>>
    /\ UNCHANGED daemon
    /\ UNCHANGED limits_history
    /\ UNCHANGED kill_history

NewTicketsWith(kill_active_before, total) ==
    OutcomeWith(kill_active_before, total, {}).report.new_tickets_detected

enforce_completes(total, ok) ==
    /\ inflight # "none"
    /\ EnforceStepWith(OutcomeWith(inflight = "active", total, ok), ok, TRUE)
    /\ inflight' = "none"
    /\ UNCHANGED <<watch, prev>>

NextTwoLoops ==
    \/ Advance
    \/ OpenPosition(EURUSD)
    \/ \E t \in DOMAIN positions : ClosePosition(t)
    \/ enforce_reads_kill_status
    \/ \E total \in RiskValues : \E ok \in SUBSET NewTicketsWith(inflight = "active", total) :
           enforce_completes(total, ok)
    \/ CooldownIteration
    \/ \E snapshot_ok \in BOOLEAN : \E ok \in SUBSET Matched : \E raised \in SUBSET (Matched \ ok) :
           run_daemon_02(snapshot_ok, ok, raised)

SpecTwoLoops == Init /\ [][NextTwoLoops]_vars

(* ================= the claims, checked under Spec ====================== *)
Ticks == {<<total, ok>> : total \in RiskValues, ok \in SUBSET DOMAIN positions}
Idle == now - st.last_attempt_at

(* C1 as stated: risk_block_active becomes true only in a call that leaves at least *)
(* max_block_attempts counted violations; with fewer it is never set.               *)
C1_AsStated ==
    [][(~st.risk_block_active /\ st'.risk_block_active)
           => st'.block_attempts >= max_block_attempts]_vars

(* C1 amended: risk_block_active becomes true only in a call that leaves at least   *)
(* max_block_attempts counted violations, or in a call that finds the kill switch   *)
(* active (armed by the news path), which forces the flag whatever the count.       *)
C1_AttemptAccounting ==
    [][(~st.risk_block_active /\ st'.risk_block_active)
           => (st'.block_attempts >= max_block_attempts \/ KillActive(kill_until, now))]_vars

C1_Witness ==
    /\ st.risk_block_active
    /\ st.block_attempts = max_block_attempts
    /\ st.last_attempt_at = now
    /\ kill_until = BlockUntil(now, block_minutes)

(* C2: a ticket of the snapshot of the first enforce_aggregate_risk call is never   *)
(* detected as new and never asked to be closed by a later call.                    *)
C2_BaselineCorrectness == close_requested \cap first_tickets = {}

C2_Witness ==
    /\ first_tickets \cap DOMAIN positions # {}
    /\ close_requested # {}
    /\ st.block_attempts > 0

C5_MonotonicSuspension == kill_until = armed_max

C5_Witness ==
    /\ kill_until # NoTime
    /\ kill_until = armed_max
    /\ kill_until > BlockUntil(now, block_minutes)
    /\ st.block_attempts >= max_block_attempts

(* C6: maybe_reenable_autotrade fires at most once between two set_kill_until calls. *)
C6_ExactlyOnceReenable == reenabled <= 1

C6_Witness ==
    /\ reenabled = 1
    /\ kill_until = NoTime
    /\ autotrading
    /\ cooldown = 0

C9_AsStated == st.baseline_tickets \cap close_requested = {}

(* C9 amended: baseline_tickets never holds a ticket whose close by the enforcer     *)
(* succeeded; a ticket whose close failed and that is still open when the risk is    *)
(* back at or below the threshold does enter the baseline.                           *)
C9_BaselineExcludesClosed == st.baseline_tickets \cap closed_ok = {}

C9_Witness ==
    /\ closed_ok # {}
    /\ st.baseline_tickets # {}
    /\ st.baseline_tickets = DOMAIN positions
    /\ st.block_attempts > 0

(* ================= the claims, checked under SpecNews01 ================ *)
(* C10: whenever the loop of news_windows0.1 is between two iterations and the     *)
(* kill switch is active, automated trading is off, also after a snapshot failed   *)
(* inside the confirmation barrier.                                                *)
C10_SuspendedWhenIdle == (pc = "idle" /\ KillActive(kill_until, now)) => ~autotrading

NewsTicks == {<<snapshot_ok, ok, raised>> :
                 snapshot_ok \in BOOLEAN, ok \in SUBSET Matched, raised \in SUBSET Matched}

ArmCalls(calls) == {i \in 1..Len(calls) : calls[i].op = "arm"}

ArmedOnceAfterCloses(calls) ==
    /\ Cardinality(ArmCalls(calls)) <= 1
    /\ \A i \in ArmCalls(calls) : \A j \in 1..Len(calls) : calls[j].op = "close" => j < i

(* C12: one enforce_news_window call arms the kill switch at most once, and only   *)
(* after the close of every affected position has been attempted; never between    *)
(* two close attempts of the same call.                                            *)
C12_ArmedOnceAfterBatch ==
    [][\A tk \in NewsTicks :
          run_daemon_01(tk[1], tk[2], tk[3])
              => /\ kill_until' = ApplyArms(kill_until, Calls01(tk[1], tk[3]))
                 /\ ArmedOnceAfterCloses(Calls01(tk[1], tk[3]))]_vars

BatchUntil(affected) ==
    SetMax({m.ts_utc : m \in UNION {Matches(k) : k \in affected}}) + window_min

(* C13: after an enforce_news_window call with at least one affected position the  *)
(* report's kill_switch_until, and the timestamp the kill switch was armed to, is   *)
(* max(event timestamp) + window_min over all matched events of all affected        *)
(* positions of the batch.                                                          *)
C13_UntilIsBatchMaximum ==
    [][\A tk \in NewsTicks :
          (run_daemon_01(tk[1], tk[2], tk[3]) /\ Affected(tk[1], tk[3]) # {})
              => /\ kill_until' = Max(kill_until, BatchUntil(Affected(tk[1], tk[3])))
                 /\ NewsReport01(tk[1], tk[2], tk[3]).kill_switch_until
                        = BatchUntil(Affected(tk[1], tk[3]))]_vars

(* ================= the claims, checked under Spec (continued) =========== *)
NotifyCalls(calls) == {i \in 1..Len(calls) : calls[i].op = "notify"}

(* C14: in an iteration whose enforce_news_window reported affected positions,     *)
(* notify_news (and the switching off of automated trading) happens only once a    *)
(* fresh snapshot holds none of the affected tickets.                              *)
C14_NotifyAfterConfirmedClosure ==
    [][\A tk \in NewsTicks :
          (run_daemon_02(tk[1], tk[2], tk[3]) /\ NotifyCalls(Calls02(tk[1], tk[3])) # {})
              => Affected(tk[1], tk[3]) \cap DOMAIN positions' = {}]_vars

(* ================= the claims, checked under SpecWatch ================== *)
(* C15: the loop never ends on one bad tick: an exception raised inside a tick is  *)
(* caught at the tick boundary and the loop goes on to the next tick.              *)
C15_LoopSurvivesBadTick == watch # "terminated"

(* C16: a crash inside _save_state leaves the complete prior or the complete new   *)
(* state in the file; no later load sees a truncated record.                       *)
C16_SaveIsAtomic == state_file # "truncated"

C19_EnforcersDoNotInterleave ==
    [][(inflight # "none" /\ inflight' # "none") => kill_until' = kill_until]_vars

C21_SymbolCurrencies ==
    \A k \in DOMAIN positions :
        LET symbol == positions[k].symbol
            s == [i \in 1..Len(symbol) |-> Upper(symbol[i])]
            derived == map_symbol_currencies(symbol)
        IN  /\ IF Len(symbol) >= 6 /\ \A i \in 1..6 : s[i] \in Letters
               THEN derived = {<<s[1], s[2], s[3]>>, <<s[4], s[5], s[6]>>}
               ELSE derived = {[i \in 1..Min(3, Len(s)) |-> s[Len(s) - Min(3, Len(s)) + i]]}
            /\ symbol = XAU => derived = {XAU}
            /\ symbol = eurusd => derived = {EUR, USD}
            /\ symbol = US30 => derived = {<<"S", "3", "0">>}

(* positions of a three-character symbol, of a symbol with digits and of a pair *)
(* are open, and the daemon has armed the switch for the pair's event           *)
C21_Witness ==
    /\ \E k \in DOMAIN positions : positions[k].symbol = XAU
    /\ \E k \in DOMAIN positions : positions[k].symbol \in {US30, eurusd}
    /\ kill_until # NoTime

C23_AsStated ==
    [][(now' = now /\ nextTicket' = nextTicket /\ load_state.baseline_tickets # {}) =>
       \A total \in {r \in RiskValues : ~WithinThreshold(r)} :
       \A ok \in {closed_ok' \ closed_ok} :
       \A gone \in {(DOMAIN positions \ DOMAIN positions') \ ok} :
       \A new_tickets \in {NewTickets(DOMAIN positions, load_state.baseline_tickets)} :
          enforce_with_vanished(total, ok, gone)
              => /\ st'.block_attempts = load_state.block_attempts + Cardinality(new_tickets)
                 /\ st'.last_attempt_at
                        = (IF new_tickets # {} THEN now ELSE load_state.last_attempt_at)]_vars

(* C23: an above-threshold call saves attempts = the count its decay check left     *)
(* (the report's attempts_before) plus the number of new tickets it detected,       *)
(* whether or not their closes succeeded, and stamps last_attempt_at = now; when it *)
(* detects no new ticket it saves attempts and last_attempt_at as the decay check   *)
(* left them.                                                                       *)
C23_AttemptsGrowByNewTickets ==
    [][(now' = now /\ nextTicket' = nextTicket /\ load_state.baseline_tickets # {}) =>
       \A total \in {r \in RiskValues : ~WithinThreshold(r)} :
       \A ok \in {closed_ok' \ closed_ok} :
       \A gone \in {(DOMAIN positions \ DOMAIN positions') \ ok} :
       \A new_tickets \in {NewTickets(DOMAIN positions, load_state.baseline_tickets)} :
       \A decay \in {DecayDue(load_state.block_attempts, load_state.last_attempt_at,
                              now, block_minutes)} :
          enforce_with_vanished(total, ok, gone)
              => /\ Outcome(total, ok).report.attempts_before
                        = (IF decay THEN 0 ELSE load_state.block_attempts)
                 /\ st'.block_attempts
                        = (IF decay THEN 0 ELSE load_state.block_attempts)
                              + Cardinality(new_tickets)
                 /\ st'.last_attempt_at
                        = (IF new_tickets # {} THEN now
                           ELSE IF decay THEN NoTime ELSE load_state.last_attempt_at)]_vars

(* a call has counted two new tickets at once, on top of an earlier one, although  *)
(* none of the two closes succeeded                                                *)
C23_Witness ==
    /\ st.block_attempts = 3
    /\ st.last_attempt_at = now
    /\ Cardinality(close_requested) = 2
    /\ closed_ok = {}
    /\ Cardinality(close_requested \cap DOMAIN positions) = 2

(* C24: an above-threshold call saves the baseline_tickets it loaded: none of the   *)
(* new tickets it detected is added, whether its close succeeded or not.            *)
C24_BaselineKeptAboveThreshold ==
    [][(now' = now /\ nextTicket' = nextTicket /\ load_state.baseline_tickets # {}) =>
       \A total \in {r \in RiskValues : ~WithinThreshold(r)} :
       \A ok \in {closed_ok' \ closed_ok} :
       \A gone \in {(DOMAIN positions \ DOMAIN positions') \ ok} :
          enforce_with_vanished(total, ok, gone)
              => /\ st'.baseline_tickets = load_state.baseline_tickets
                 /\ st'.baseline_tickets
                        \cap NewTickets(DOMAIN positions, load_state.baseline_tickets) = {}]_vars

(* the last call detected two new tickets, closed one and failed on the other, which *)
(* is still open; neither is in the saved baseline                                   *)
C24_Witness ==
    /\ Cardinality(close_requested) = 2
    /\ Cardinality(closed_ok) = 1
    /\ Cardinality(close_requested \cap DOMAIN positions) = 1
    /\ st.last_attempt_at = now
    /\ st.baseline_tickets # {}
    /\ st.baseline_tickets \cap close_requested = {}

(* ================= the claims, checked under Spec (continued) =========== *)
(* C25 as stated: a within-threshold call on a non-empty baseline saves the current *)
(* tickets as baseline; when the block flag was saved and the kill switch is not    *)
(* active it saves attempts = 0 and the flag false; when the flag was saved and the *)
(* kill switch is still active it saves the attempts and the flag it loaded.        *)
C25_AsStated ==
    [][(now' = now /\ nextTicket' = nextTicket /\ load_state.baseline_tickets # {}) =>
       \A total \in {r \in RiskValues : WithinThreshold(r)} :
          enforce_aggregate_risk(total, {})
              => /\ st'.baseline_tickets = DOMAIN positions
                 /\ (load_state.risk_block_active /\ ~KillActive(kill_until, now))
                        => st'.block_attempts = 0 /\ ~st'.risk_block_active
                 /\ (load_state.risk_block_active /\ KillActive(kill_until, now))
                        => /\ st'.block_attempts = load_state.block_attempts
                           /\ st'.risk_block_active]_vars

(* C25: a within-threshold call on a non-empty baseline saves the current tickets   *)
(* as baseline; when the block flag was saved and the kill switch is not active it  *)
(* saves attempts = 0, no last_attempt_at and the flag false; when the kill switch  *)
(* is still active it saves the flag true and the attempts its decay check left:    *)
(* the loaded count, or 0 when the last counted violation is max(1, block_minutes)  *)
(* minutes old.                                                                     *)
C25_WithinThresholdTick ==
    [][(now' = now /\ nextTicket' = nextTicket /\ load_state.baseline_tickets # {}) =>
       \A total \in {r \in RiskValues : WithinThreshold(r)} :
       \A decay \in {DecayDue(load_state.block_attempts, load_state.last_attempt_at,
                              now, block_minutes)} :
          enforce_aggregate_risk(total, {})
              => /\ st'.baseline_tickets = DOMAIN positions
                 /\ (load_state.risk_block_active /\ ~KillActive(kill_until, now))
                        => /\ st'.block_attempts = 0
                           /\ st'.last_attempt_at = NoTime
                           /\ ~st'.risk_block_active
                 /\ KillActive(kill_until, now)
                        => /\ st'.risk_block_active
                           /\ st'.block_attempts = (IF decay THEN 0 ELSE load_state.block_attempts)
                           /\ st'.last_attempt_at
                                  = (IF decay THEN NoTime ELSE load_state.last_attempt_at)
                 /\ kill_until' = kill_until]_vars

(* the kill switch is active and the flag is saved; a within-threshold call has    *)
(* adopted a ticket whose close had failed and saved the decayed count             *)
C25_Witness ==
    /\ KillActive(kill_until, now)
    /\ st.risk_block_active
    /\ st.block_attempts = 0
    /\ st.baseline_tickets = DOMAIN positions
    /\ st.baseline_tickets \cap close_requested # {}

(* C26: the positions one enforce_news_window call asks the engine to close are     *)
(* exactly the positions of its snapshot that were opened no more than recent_s     *)
(* before now and whose derived currencies include the currency of a calendar event *)
(* dated from now - window_min to now + window_min, both included; neither the      *)
(* saved risk state nor the kill switch enters the choice.                          *)
C26_CloseAttemptedIffRecentAndMatched ==
    \A snapshot_ok \in BOOLEAN : \A raised \in SUBSET Matched :
    \A calls \in {Calls02(snapshot_ok, raised)} :
    \A due \in {{k \in DOMAIN positions :
                   /\ now - positions[k].open_time <= recent_s
                   /\ \E e \in Calendar :
                         /\ e.currency \in map_symbol_currencies(positions[k].symbol)
                         /\ now - window_min <= e.ts_utc
                         /\ e.ts_utc <= now + window_min}} :
        /\ {calls[i].ticket : i \in {j \in 1..Len(calls) : calls[j].op = "close"}}
               = (IF snapshot_ok THEN due ELSE {})
        /\ \A k \in due :
               Cardinality({i \in 1..Len(calls) :
                               calls[i].op = "close" /\ calls[i].ticket = k})
                   = (IF snapshot_ok THEN 1 ELSE 0)

(* the kill switch is active and the block flag is saved, and a position opened     *)
(* exactly recent_s ago with an event exactly window_min old is among those the     *)
(* next call closes                                                                 *)
C26_Witness ==
    /\ KillActive(kill_until, now)
    /\ st.risk_block_active
    /\ \E k \in Matched :
          /\ now - positions[k].open_time = recent_s
          /\ \E e \in Matches(k) : e.ts_utc = now - window_min

(* C27: when the close of a matched position fails in one enforce_news_window call, *)
(* by a not-ok answer or by raising, the other matched positions are still asked to *)
(* close, the failing ticket is in the report's failed list, and the kill switch is *)
(* armed to the expiry of the whole batch.                                          *)
C27_PartialBatchFailure ==
    [][\A raised \in SUBSET Matched :
       \A ok \in {DOMAIN positions \ DOMAIN positions'} :
       \A calls \in {Calls02(TRUE, raised)} :
          (Matched \ ok # {} /\ run_daemon_02(TRUE, ok, raised))
              => /\ Matched = {calls[i].ticket : i \in {j \in 1..Len(calls) :
                                                          calls[j].op = "close"}}
                 /\ NewsReport02(TRUE, ok, raised).failed = Matched \ ok
                 /\ NewsReport02(TRUE, ok, raised).closed = ok
                 /\ kill_until' = Max(kill_until, MaxUntil(Matched))]_vars

(* ================= the claims, checked under SpecFair =================== *)
(* C28: an iteration of the daemon in which the re-enable fires runs no enforcer:   *)
(* it asks for no close and arms nothing, clears the kill switch record, turns      *)
(* automated trading on and starts the anti-flood wait; every later iteration of    *)
(* the wait shortens it, and the wait ends: the daemon comes back to a state in     *)
(* which its next iteration runs the enforcer.                                      *)
C28_ReenableThenCooldown ==
    /\ [][/\ Reenables
             => \A snapshot_ok \in BOOLEAN : \A raised \in SUBSET Matched :
                   ~run_daemon_02(snapshot_ok, DOMAIN positions \ DOMAIN positions', raised)
          /\ CooldownIteration
             => /\ positions' = positions
                /\ st' = st
                /\ IF Reenables
                   THEN /\ kill_until' = NoTime
                        /\ autotrading'
                        /\ cooldown' = CooldownSeconds - 1
                   ELSE /\ kill_until' = kill_until
                        /\ cooldown' = cooldown - 1]_vars
    /\ (Reenables \/ cooldown > 0) ~> (~Reenables /\ cooldown = 0 /\ pc = "idle")

(* the re-enable has just fired: the wait is running, the kill switch record is     *)
(* cleared, and a position the enforcer would close is open                          *)
C28_Witness ==
    /\ cooldown = CooldownSeconds - 1
    /\ kill_until = NoTime
    /\ reenabled = 1
    /\ autotrading
    /\ Matched # {}

(* ================= the claims, checked under SpecNews01Fair ============= *)
(* C29: the daemon leaves the confirmation barrier only at a poll that finds none   *)
(* of the affected tickets open, and then with automated trading switched off;      *)
(* while an affected ticket is open it stays in the barrier and runs no other       *)
(* iteration; once none is open it does leave the barrier.                          *)
C29_BarrierEndsIffAllClosed ==
    /\ [][pc = "barrier"
             => /\ pc' = "idle"
                    => /\ affected_tickets \cap DOMAIN positions = {}
                       /\ ~autotrading'
                /\ affected_tickets \cap DOMAIN positions # {}
                    => /\ pc' = "barrier"
                       /\ kill_until' = kill_until
                       /\ cooldown' = cooldown
                       /\ autotrading' = autotrading]_vars
    /\ (pc = "barrier" /\ affected_tickets \cap DOMAIN positions = {}) ~> (pc = "idle")

(* ================= the claims, checked under Spec (continued) =========== *)
(* C30: only the first call for the account takes the first-run branch; every later *)
(* call whose total risk is above the threshold asks the engine to close every      *)
(* ticket of its snapshot that is not in the saved baseline, also when the saved    *)
(* baseline is empty.                                                               *)
C30_FirstRunOnlyOnce ==
    [][(ticked /\ now' = now /\ nextTicket' = nextTicket) =>
       \A total \in {r \in RiskValues : ~WithinThreshold(r)} :
       \A ok \in {closed_ok' \ closed_ok} :
       \A out \in {Outcome(total, ok)} :
          enforce_aggregate_risk(total, ok)
              => /\ out.report.branch # "first"
                 /\ out.report.new_tickets_detected
                        = DOMAIN positions \ load_state.baseline_tickets
                 /\ (DOMAIN positions \ load_state.baseline_tickets) \subseteq close_requested'
                 /\ st'.baseline_tickets = load_state.baseline_tickets]_vars

(* C31: every state that enforce_aggregate_risk saves with risk_block_active true    *)
(* has block_attempts at max_block_attempts or more, or is saved while the kill      *)
(* switch is active: the flag does not stay after the count has decayed and the      *)
(* suspension has expired.                                                          *)
C31_FlagHasACause ==
    [][(now' = now /\ nextTicket' = nextTicket) =>
       \A total \in RiskValues :
       \A ok \in {closed_ok' \ closed_ok} :
          (enforce_aggregate_risk(total, ok) /\ st'.risk_block_active)
              => (st'.block_attempts >= max_block_attempts \/ KillActive(kill_until', now))]_vars

(* ================= the claims, checked under SpecCloses (continued) ===== *)
(* C32 as stated: a ticket outside the baseline whose close failed and that is still *)
(* open at an above-threshold call is detected as new again, gets another close      *)
(* request, and the call saves at least one attempt more than the saved count.       *)
C32_AsStated ==
    [][(now' = now /\ nextTicket' = nextTicket /\ load_state.baseline_tickets # {}) =>
       \A total \in {r \in RiskValues : ~WithinThreshold(r)} :
       \A ok \in {closed_ok' \ closed_ok} :
       \A gone \in {(DOMAIN positions \ DOMAIN positions') \ ok} :
       \A new_tickets \in {NewTickets(DOMAIN positions, load_state.baseline_tickets)} :
       \A t \in (close_requested \cap DOMAIN positions) \ load_state.baseline_tickets :
          enforce_with_vanished(total, ok, gone)
              => /\ t \in new_tickets
                 /\ t \in close_requested'
                 /\ st'.block_attempts >= load_state.block_attempts + 1]_vars

(* C32: a ticket outside the baseline whose close failed and that is still open at   *)
(* an above-threshold call is detected as new again and gets one more close request; *)
(* the call counts it once more on top of what its decay check left, and keeps the   *)
(* baseline, so that the next call detects it again. When the decay check does not   *)
(* fire the saved count grows by at least one, and a call that loads                 *)
(* max_block_attempts - 1 saves risk_block_active = true: one ticket that never      *)
(* closes reaches max_block_attempts over calls less than max(1, block_minutes)      *)
(* minutes apart.                                                                    *)
C32_StuckTicketCountedEveryTick ==
    [][(now' = now /\ nextTicket' = nextTicket /\ load_state.baseline_tickets # {}) =>
       \A total \in {r \in RiskValues : ~WithinThreshold(r)} :
       \A ok \in {closed_ok' \ closed_ok} :
       \A gone \in {(DOMAIN positions \ DOMAIN positions') \ ok} :
       \A new_tickets \in {NewTickets(DOMAIN positions, load_state.baseline_tickets)} :
       \A decay \in {DecayDue(load_state.block_attempts, load_state.last_attempt_at,
                              now, block_minutes)} :
       \A t \in (close_requested \cap DOMAIN positions) \ load_state.baseline_tickets :
          enforce_with_vanished(total, ok, gone)
              => /\ t \in new_tickets
                 /\ Cardinality({i \in 1..Len(CloseCalls(new_tickets)) :
                                    CloseCalls(new_tickets)[i].ticket = t}) = 1
                 /\ t \in close_requested'
                 /\ st'.block_attempts
                        = (IF decay THEN 0 ELSE load_state.block_attempts)
                              + Cardinality(new_tickets)
                 /\ st'.last_attempt_at = now
                 /\ st'.baseline_tickets = load_state.baseline_tickets
                 /\ ~decay => st'.block_attempts >= load_state.block_attempts + 1
                 /\ (~decay /\ load_state.block_attempts >= max_block_attempts - 1)
                        => /\ st'.block_attempts >= max_block_attempts
                           /\ st'.risk_block_active]_vars

(* one ticket outside the baseline was asked to close in call after call, never      *)
(* closed and is still open; it alone has brought attempts to max_block_attempts     *)
C32_Witness ==
    /\ Cardinality(close_requested) = 1
    /\ closed_ok = {}
    /\ close_requested \subseteq DOMAIN positions
    /\ close_requested \cap st.baseline_tickets = {}
    /\ st.block_attempts = max_block_attempts
    /\ st.last_attempt_at = now
    /\ st.risk_block_active

(* ================= the claims, checked under Spec (continued) =========== *)
(* C33 as stated: a call of enforce_aggregate_risk arms the kill switch only when    *)
(* its total risk is above the threshold and it detects at least one new ticket.     *)
C33_AsStated ==
    \A total \in RiskValues :
    \A ok \in SUBSET NewTicketsOf(total) :
    \A out \in {Outcome(total, ok)} :
       out.report.kill_switch_armed_now
           => /\ ~WithinThreshold(total)
              /\ out.report.new_tickets_detected # {}

(* C33: in every state, a call of enforce_aggregate_risk arms the kill switch        *)
(* exactly when it takes the above-threshold branch, is left with                    *)
(* max_block_attempts or more and does not find the kill switch active: the kill     *)
(* switch record then becomes now + max(1, block_minutes). A first-run call and a    *)
(* within-threshold call never arm it and leave the record alone; an above-threshold *)
(* call with no new ticket arms it when the saved count, not decayed, is already at  *)
(* max_block_attempts.                                                               *)
C33_ArmsOnlyWhenTrippedAndNotActive ==
    \A total \in RiskValues :
    \A ok \in SUBSET NewTicketsOf(total) :
    \A out \in {Outcome(total, ok)} :
       /\ out.report.kill_switch_armed_now
              <=> /\ load_state.baseline_tickets # {}
                  /\ ~WithinThreshold(total)
                  /\ out.st.block_attempts >= max_block_attempts
                  /\ ~KillActive(kill_until, now)
       /\ out.report.kill_switch_armed_now
              => out.kill_until = BlockUntil(now, block_minutes)
       /\ ~out.report.kill_switch_armed_now => out.kill_until = kill_until
       /\ out.report.branch \in {"first", "within"}
              => ~out.report.kill_switch_armed_now

(* a call has armed the kill switch without a new violation: the count reached       *)
(* max_block_attempts in an earlier minute, while the news suspension was active,    *)
(* and the call found that suspension expired; no calendar event gives this expiry   *)
C33_Witness ==
    /\ kill_until = BlockUntil(now, block_minutes)
    /\ \A e \in Calendar : kill_until > e.ts_utc + window_min
    /\ st.block_attempts >= max_block_attempts
    /\ st.last_attempt_at # NoTime
    /\ st.last_attempt_at < now
    /\ st.risk_block_active

====
